---- MODULE Spec2Model ----
(***************************************************************************)
(* A model of rajpurkarlab/deidentification-tools (dicom_extraction).      *)
(*                                                                         *)
(* Strings the code takes apart (folder names, file names, PatientAge,     *)
(* StudyDate, StudyTime, PhotometricInterpretation) are sequences of       *)
(* one-character strings, so that slicing, searching, case folding and     *)
(* regular-expression matching are computed and not assumed.  A few        *)
(* fixed substrings the code only ever treats as a block ("patient_",      *)
(* "study_", ".dcm") are single elements of such a sequence.               *)
(***************************************************************************)
EXTENDS Integers, Sequences, FiniteSets, TLC

VARIABLES
    \* ---- pixel codec (get_dicom_pixel / get_anonymized_dicom_from_metadata_png)
    pxMeta,      \* [BitsAllocated, BitsStored, PhotometricInterpretation] of the file
    pxNative,    \* dicom.pixel_array of the source file (sequence of samples)
    pxPng,       \* the array get_dicom_pixel returned (what the PNG holds)
    pxRecon,     \* the array the reconstruction put into PixelData
    pxPc,        \* "idle" | "read" | "extracted" | "reconstructed"
    \* ---- PatientAge transform (dicom_helper.extract_modified_age)
    ageIn,       \* the PatientAge string
    ageOut,      \* what extract_modified_age returned
    agePc,       \* "idle" | "call" | "returned"
    \* ---- special fields (deidentify_helper.extract_special_metadata)
    spDicom,     \* the dataset: keyword -> value, for the keywords it holds
    spTags,      \* the Keyword column of tags_to_modify.csv
    spSpecial,   \* the mapping extract_special_metadata returned
    spPc,        \* "idle" | "call" | "returned"
    \* ---- output names (helpers/utils.py)
    nmFile,      \* a DicomFileInfo: patient_folder, study_folder, filename
    nmPng,       \* get_png_path(new_image_dir, nmFile), the name in new_image_dir
    nmDcm,       \* get_dicom_path(new_image_dir, nmFile)
    nmDcmOfPng,  \* get_dicom_path_from_png(nmPng)
    nmPc,        \* "idle" | "call" | "returned"
    \* ---- file discovery (get_list_of_all_dicom_files)
    tree,        \* the input directory: the set of the paths of its files
    dsList,      \* the list get_list_of_all_dicom_files returned
    dsPc,        \* "idle" | "call" | "returned"
    \* ---- the batch (deidentify_dicoms, generate_anonymized_dicom_from_metadata_png)
    conf,        \* the Keyword columns of the three tag files
    pc,          \* "idle" | "start" | "metadata" | "png" | "done" | "aborted" | "recon" | "recon_aborted" | "recon_done"
                 \*   | "recon" | "recon_done" | "recon_aborted"
    outDir,      \* whether deidentified_data/images exists
    dicom_files, \* the list the running loop iterates
    idx,         \* the position of the running loop in dicom_files (from 1)
    anon_metadata_all,  \* the rows collected by generate_anonymized_metadata
    rowSource,   \* for each collected row, the path of the file it came from
    csv,         \* extracted_metadata.csv: None, or the sequence of its rows
    images,      \* the files of the image directory: name -> content
    dcmReads,    \* the paths pydicom.dcmread was called on in this run, in order
    interrupts,  \* how many times deidentify_dicoms was interrupted and run again
    \* ---- create_new_dicom on one file_meta argument
    fmIn,        \* the file_meta argument
    fmOut,       \* the file meta of the dataset create_new_dicom returned
    fmPc         \* "idle" | "call" | "returned"

pixelVars == <<pxMeta, pxNative, pxPng, pxRecon, pxPc>>
ageVars == <<ageIn, ageOut, agePc>>
specialVars == <<spDicom, spTags, spSpecial, spPc>>
nameVars == <<nmFile, nmPng, nmDcm, nmDcmOfPng, nmPc>>
discoveryVars == <<tree, dsList, dsPc>>
batchVars == <<conf, pc, outDir, dicom_files, idx, anon_metadata_all, rowSource, csv,
               images, dcmReads, interrupts>>

fileMetaVars == <<fmIn, fmOut, fmPc>>

vars == <<pixelVars, ageVars, specialVars, nameVars, discoveryVars, batchVars, fileMetaVars>>

----------------------------------------------------------------------------
(* Generic helpers                                                         *)

RECURSIVE Pow2(_)
Pow2(n) == IF n = 0 THEN 1 ELSE 2 * Pow2(n - 1)

Min(a, b) == IF a <= b THEN a ELSE b

Digits == {"0", "1", "2", "3", "4", "5", "6", "7", "8", "9"}

DigitVal(c) ==
    CASE c = "0" -> 0 [] c = "1" -> 1 [] c = "2" -> 2 [] c = "3" -> 3
      [] c = "4" -> 4 [] c = "5" -> 5 [] c = "6" -> 6 [] c = "7" -> 7
      [] c = "8" -> 8 [] c = "9" -> 9

DigitChar(d) ==
    CASE d = 0 -> "0" [] d = 1 -> "1" [] d = 2 -> "2" [] d = 3 -> "3"
      [] d = 4 -> "4" [] d = 5 -> "5" [] d = 6 -> "6" [] d = 7 -> "7"
      [] d = 8 -> "8" [] d = 9 -> "9"

\* All sequences over S of length 0..n
SeqsUpTo(S, n) == UNION {[1..k -> S] : k \in 0..n}

InSeq(x, seq) == \E i \in 1..Len(seq) : seq[i] = x

\* Python's s[a:] and s[:b] for 0 <= a, b <= len(s)   (1-based SubSeq underneath)
PyFrom(s, a) == SubSeq(s, a + 1, Len(s))
PyUpTo(s, b) == SubSeq(s, 1, b)

----------------------------------------------------------------------------
(* Pixel codec                                                             *)

MONOCHROME1 == <<"M", "O", "N", "O", "C", "H", "R", "O", "M", "E", "1">>
MONOCHROME2 == <<"M", "O", "N", "O", "C", "H", "R", "O", "M", "E", "2">>

\* str.upper() / str.lower() on the letters that occur in the model
UpperChar(c) ==
    CASE c = "m" -> "M" [] c = "o" -> "O" [] c = "n" -> "N" [] c = "c" -> "C"
      [] c = "h" -> "H" [] c = "r" -> "R" [] c = "e" -> "E"
      [] OTHER -> c

LowerChar(c) ==
    CASE c = "M" -> "m" [] c = "O" -> "o" [] c = "N" -> "n" [] c = "C" -> "c"
      [] c = "H" -> "h" [] c = "R" -> "r" [] c = "E" -> "e"
      [] OTHER -> c

Upper(s) == [i \in 1..Len(s) |-> UpperChar(s[i])]
Lower(s) == [i \in 1..Len(s) |-> LowerChar(s[i])]

\* "Monochrome1": only the first letter in upper case
Capitalized(s) == [i \in 1..Len(s) |-> IF i = 1 THEN s[i] ELSE LowerChar(s[i])]

\* numpy on an unsigned array of width w bits: <<, >> and invert keep the dtype
ShiftLeft(x, k, w) == (x * Pow2(k)) % Pow2(w)
ShiftRight(x, k) == x \div Pow2(k)
Invert(x, w) == Pow2(w) - 1 - x

\* get_dicom_pixel: whether the samples are inverted for the PNG
ExtractInverts(pi) == Upper(pi) = MONOCHROME1

\* get_anonymized_dicom_from_metadata_png: whether the samples are inverted back
ReconstructInverts(pi) == pi = MONOCHROME1

\* get_dicom_pixel on the decoded array of a file with the given elements
get_dicom_pixel(arr, meta) ==
    LET w == meta.BitsAllocated
        shifted == IF meta.BitsStored # meta.BitsAllocated
                   THEN [i \in 1..Len(arr) |->
                            ShiftLeft(arr[i], meta.BitsAllocated - meta.BitsStored, w)]
                   ELSE arr
    IN  IF ExtractInverts(meta.PhotometricInterpretation)
        THEN [i \in 1..Len(shifted) |-> Invert(shifted[i], w)]
        ELSE shifted

\* the pixel steps of get_anonymized_dicom_from_metadata_png (lines 140-145)
reconstruct_pixels(arr, meta) ==
    LET w == meta.BitsAllocated
        inv == IF ReconstructInverts(meta.PhotometricInterpretation)
               THEN [i \in 1..Len(arr) |-> Invert(arr[i], w)]
               ELSE arr
        bit_unshift == meta.BitsAllocated - meta.BitsStored
    IN  [i \in 1..Len(inv) |-> ShiftRight(inv[i], bit_unshift)]

\* Bounds of the pixel specification
MaxPixels == 2

\* BitsAllocated of the unsigned dtypes pydicom decodes to (uint8, uint16)
BitsAllocatedValues == {8, 16}

PhotometricValues ==
    {MONOCHROME1, MONOCHROME2, Lower(MONOCHROME1), Lower(MONOCHROME2),
     Capitalized(MONOCHROME1)}

\* Samples of a valid array: below 2^BitsStored; the extremes and the middle
SampleValues(bs) == {0, 1, Pow2(bs - 1), Pow2(bs) - 1}

PixelMetas ==
    {m \in [BitsAllocated : BitsAllocatedValues, BitsStored : 1..16,
            PhotometricInterpretation : PhotometricValues] :
        m.BitsStored <= m.BitsAllocated}

----------------------------------------------------------------------------
(* Values of mixed Python type, tagged so that they can be compared        *)

StrV(s) == [t |-> "str", s |-> s]
IntV(n) == [t |-> "int", n |-> n]
None == [t |-> "None"]
\* a value that is not a str (a pydicom MultiValue, say)
OtherV == [t |-> "other"]

\* dict: a function from the keys present; d[k] = v
EmptyDict == [k \in {} |-> None]
Put(d, k, v) == [x \in (DOMAIN d) \cup {k} |-> IF x = k THEN v ELSE d[x]]
\* {**a, **b}: the later mapping wins on a key collision
Merge(a, b) == [x \in (DOMAIN a) \cup (DOMAIN b) |-> IF x \in DOMAIN b THEN b[x] ELSE a[x]]

----------------------------------------------------------------------------
(* dicom_helper.py                                                         *)

IsDigits(s) == \A i \in 1..Len(s) : s[i] \in Digits

RECURSIVE DecVal(_)
\* the number a string of decimal digits denotes
DecVal(s) == IF s = <<>> THEN 0 ELSE 10 * DecVal(SubSeq(s, 1, Len(s) - 1)) + DigitVal(s[Len(s)])

\* int(s) for s over the model's alphabet (digits and letters; no sign, blank
\* or underscore): raises unless s is one or more digits.
IntRaises(s) == s = <<>> \/ ~IsDigits(s)

RECURSIVE IntToStr(_)
\* f"{n}" for n >= 0
IntToStr(n) == IF n < 10 THEN <<DigitChar(n)>> ELSE IntToStr(n \div 10) \o <<DigitChar(n % 10)>>

\* string_to_int, lines 8-12: the first index whose character is not "0", or
\* the last index; 0 when the loop never breaks (the empty string)
int_start_index(string) ==
    LET hits == {i \in 0..(Len(string) - 1) :
                    string[i + 1] # "0" \/ i = Len(string) - 1}
    IN  IF hits = {} THEN 0 ELSE CHOOSE i \in hits : \A j \in hits : i <= j

\* string_to_int: IntV(n), or None when int() raised
string_to_int(string) ==
    LET tail == PyFrom(string, int_start_index(string))
    IN  IF IntRaises(tail) THEN None ELSE IntV(DecVal(tail))

\* the age above which extract_modified_age caps (line 28)
MaxAge == 90

\* extract_modified_age without the cap of line 28
extract_modified_age_uncapped(agestring) ==
    IF agestring = <<>> THEN None
    ELSE LET unit == agestring[Len(agestring)]
             extracted_int == string_to_int(PyUpTo(agestring, Len(agestring) - 1))
         IN  IF extracted_int = None THEN None
             ELSE StrV(IntToStr(extracted_int.n) \o <<unit>>)

\* extract_modified_age: StrV(age), or None when anything in the try raised
\* (agestring[-1] on an empty string, min(None, 90))
extract_modified_age(agestring) ==
    IF agestring = <<>> THEN None
    ELSE LET unit == agestring[Len(agestring)]
             extracted_int == string_to_int(PyUpTo(agestring, Len(agestring) - 1))
         IN  IF extracted_int = None THEN None
             ELSE StrV(IntToStr(Min(extracted_int.n, MaxAge)) \o <<unit>>)

IsLeap(y) == (y % 4 = 0) /\ ((y % 100 # 0) \/ (y % 400 = 0))

DaysInMonth(y, m) ==
    CASE m \in {1, 3, 5, 7, 8, 10, 12} -> 31
      [] m \in {4, 6, 9, 11} -> 30
      [] OTHER -> IF IsLeap(y) THEN 29 ELSE 28

RECURSIVE DaysBeforeMonth(_, _)
DaysBeforeMonth(y, m) == IF m = 1 THEN 0 ELSE DaysBeforeMonth(y, m - 1) + DaysInMonth(y, m - 1)

\* datetime.date.toordinal and weekday (0 = Monday)
ToOrdinal(d) ==
    LET y1 == d.year - 1
    IN  y1 * 365 + (y1 \div 4) - (y1 \div 100) + (y1 \div 400)
        + DaysBeforeMonth(d.year, d.month) + d.day

Weekday(d) == (ToOrdinal(d) + 6) % 7

\* The fields strptime's regular expression for "%Y%m%d" captures from a string
\* of digits: %Y is four digits, %m is 1[0-2]|0[1-9]|[1-9], %d is
\* 3[01]|[12]\d|0[1-9]|[1-9], the whole string consumed, the two-digit
\* alternative of %m tried first.  <<>> when the expression does not match.
MonthTwo(a, b) == (a = "1" /\ b \in {"0", "1", "2"}) \/ (a = "0" /\ b \in Digits \ {"0"})
MonthOne(a) == a \in Digits \ {"0"}
DayTwo(a, b) ==
    \/ (a = "3" /\ b \in {"0", "1"})
    \/ (a \in {"1", "2"})
    \/ (a = "0" /\ b \in Digits \ {"0"})
DayOne(a) == a \in Digits \ {"0"}

StrptimeFields(s) ==
    LET y == DecVal(SubSeq(s, 1, 4))
    IN  CASE Len(s) = 8 /\ MonthTwo(s[5], s[6]) /\ DayTwo(s[7], s[8]) ->
                 <<y, DecVal(SubSeq(s, 5, 6)), DecVal(SubSeq(s, 7, 8))>>
          [] Len(s) = 7 /\ MonthTwo(s[5], s[6]) /\ DayOne(s[7]) ->
                 <<y, DecVal(SubSeq(s, 5, 6)), DecVal(SubSeq(s, 7, 7))>>
          [] Len(s) = 7 /\ ~(MonthTwo(s[5], s[6]) /\ DayOne(s[7]))
                        /\ MonthOne(s[5]) /\ DayTwo(s[6], s[7]) ->
                 <<y, DecVal(SubSeq(s, 5, 5)), DecVal(SubSeq(s, 6, 7))>>
          [] Len(s) = 6 /\ MonthOne(s[5]) /\ DayOne(s[6]) ->
                 <<y, DecVal(SubSeq(s, 5, 5)), DecVal(SubSeq(s, 6, 6))>>
          [] OTHER -> <<>>

\* datetime.strptime(s, "%Y%m%d").date(): the date, or None when it raised
\* (no match, or a year, month and day that are no calendar date)
Strptime(s) ==
    IF ~IsDigits(s) THEN None
    ELSE LET f == StrptimeFields(s)
         IN  IF f = <<>> THEN None
             ELSE IF f[1] < 1 \/ f[3] > DaysInMonth(f[1], f[2]) THEN None
             ELSE [t |-> "date", year |-> f[1], month |-> f[2], day |-> f[3]]

extract_weekday_from_date(studydate_string) ==
    LET d == Strptime(studydate_string)
    IN  IF d = None THEN None ELSE IntV(Weekday(d))

extract_year_from_date(studydate_string) ==
    LET d == Strptime(studydate_string)
    IN  IF d = None THEN None ELSE IntV(d.year)

\* extract_hour_of_day_from_time without the range check of line 62
extract_hour_unchecked(v) ==
    IF v.t = "str" /\ Len(v.s) >= 2
    THEN LET two == PyUpTo(v.s, 2)
         IN  IF IntRaises(two) THEN None ELSE IntV(DecVal(two))
    ELSE None

\* extract_hour_of_day_from_time; v is a tagged value
extract_hour_of_day_from_time(v) ==
    IF v.t = "str" /\ Len(v.s) >= 2
    THEN LET two == PyUpTo(v.s, 2)
         IN  IF IntRaises(two) THEN None
             ELSE IF DecVal(two) \in 0..23 THEN IntV(DecVal(two)) ELSE None
    ELSE None

----------------------------------------------------------------------------
(* deidentify_helper.extract_special_metadata                              *)

private_keywords_in_dicom == {"PatientAge", "PatientBirthDate", "StudyDate", "StudyTime"}

\* the body of the loop (lines 348-372) for one keyword
special_step(dicom, keyword, acc) ==
    IF keyword \notin DOMAIN dicom THEN acc
    ELSE LET current_value == dicom[keyword]
         IN  CASE keyword = "PatientAge" ->
                      Put(acc, "age", extract_modified_age(current_value.s))
               [] keyword = "StudyDate" ->
                      Put(Put(acc, "day_of_week", extract_weekday_from_date(current_value.s)),
                          "year", extract_year_from_date(current_value.s))
               [] keyword = "StudyTime" ->
                      Put(acc, "hour_of_the_day", extract_hour_of_day_from_time(current_value))
               [] OTHER -> acc

RECURSIVE special_loop(_, _, _)
special_loop(dicom, tags, acc) ==
    IF tags = <<>> THEN acc
    ELSE special_loop(dicom, Tail(tags), special_step(dicom, Head(tags), acc))

extract_special_metadata(dicom, elements_to_modify) ==
    special_loop(dicom, elements_to_modify, EmptyDict)

----------------------------------------------------------------------------
(* helpers/utils.py: output names                                          *)

\* constants.py
GENERATED_DICOM_POSTFIX == <<"-generated_dicom", ".dcm">>

\* hashlib.sha256(filename).hexdigest()[:8], as an injective code of the hashed
\* string: two different strings get two different codes (a collision of the
\* first 8 hex digits of two sha256 digests is not modelled)
Sha256Hex8(filename) == <<"[">> \o filename \o <<"]">>

generate_png_name(filename) == <<"generated_id_">> \o Sha256Hex8(filename)

\* str.find(sub) for a one-element sub: the 0-based index of its first
\* occurrence, -1 when there is none
Find(s, sub) ==
    LET hits == {i \in 0..(Len(s) - 1) : s[i + 1] = sub}
    IN  IF hits = {} THEN -1 ELSE CHOOSE i \in hits : \A j \in hits : i <= j

\* Python's s[:b] with b possibly negative (counted from the end)
PySliceTo(s, b) ==
    IF b >= 0 THEN SubSeq(s, 1, Min(b, Len(s)))
    ELSE SubSeq(s, 1, IF Len(s) + b > 0 THEN Len(s) + b ELSE 0)

\* get_dicom_filename(dicom_file), given dicom_file.filename
get_dicom_filename(filename) ==
    generate_png_name(PySliceTo(filename, Find(filename, ".dcm")))

\* a raster name made from the position of the file in the listing
get_png_path_by_position(dicom_file) ==
    dicom_file.patient_folder \o <<"-">> \o dicom_file.study_folder \o <<"-">>
        \o IntToStr(dicom_file.anon_dicom_id) \o <<".png">>

get_png_path(dicom_file) ==
    dicom_file.patient_folder \o <<"-">> \o dicom_file.study_folder \o <<"-">>
        \o get_dicom_filename(dicom_file.filename) \o <<".png">>

get_dicom_path(dicom_file) ==
    dicom_file.patient_folder \o <<"-">> \o dicom_file.study_folder \o <<"-">>
        \o get_dicom_filename(dicom_file.filename) \o GENERATED_DICOM_POSTFIX

RECURSIVE Replace(_, _, _)
\* str.replace(old, new) for a one-element old: every occurrence
Replace(s, old, new) ==
    IF s = <<>> THEN <<>>
    ELSE (IF Head(s) = old THEN new ELSE <<Head(s)>>) \o Replace(Tail(s), old, new)

get_dicom_path_from_png(png_path) == Replace(png_path, ".png", GENERATED_DICOM_POSTFIX)

----------------------------------------------------------------------------
(* deidentify_process.get_list_of_all_dicom_files                          *)
(*                                                                         *)
(* The input directory is the set of the paths of its files, each path the *)
(* sequence of the names from the root: <<patient, study, file>> is a file *)
(* in a study folder, <<name>> and <<patient, name>> are plain files one   *)
(* and two levels up.  A directory is a proper prefix of a path.           *)

\* constants.py
MAX_PATIENT_INDEX == 500
MAX_STUDY_INDEX == 2

IsPrefix(pre, path) == Len(pre) <= Len(path) /\ SubSeq(path, 1, Len(pre)) = pre

\* Path.is_dir()
IsDir(t, path) == \E q \in t : Len(q) > Len(path) /\ IsPrefix(path, q)

RECURSIVE Dedup(_)
\* the sequence without the later repetitions of an element
Dedup(seq) ==
    IF seq = <<>> THEN <<>>
    ELSE LET front == Dedup(SubSeq(seq, 1, Len(seq) - 1))
             last == seq[Len(seq)]
         IN  IF InSeq(last, front) THEN front ELSE Append(front, last)

\* os.listdir(dir): the names of the entries of dir, in the order in which the
\* listing order (a sequence of all the paths of the directory tree) first
\* shows each.  Every order of every directory is the order some listing gives.
ListDir(order, dir) ==
    LET below == SelectSeq(order, LAMBDA q : Len(q) > Len(dir) /\ IsPrefix(dir, q))
    IN  Dedup([i \in 1..Len(below) |-> below[i][Len(dir) + 1]])

\* re.compile(r'^<prefix>[1-9][0-9]*$').match(name): "$" also matches just
\* before a newline that ends the string
MatchesFolderPattern(name, prefix) ==
    LET n == Len(name)
        core == IF n >= 1 /\ name[n] = "\n" THEN SubSeq(name, 1, n - 1) ELSE name
    IN  /\ Len(core) >= 2
        /\ core[1] = prefix
        /\ core[2] \in Digits \ {"0"}
        /\ \A i \in 3..Len(core) : core[i] \in Digits

\* int(re.findall(r"\d+", name)[0]): the first maximal run of digits
FirstNumber(name) ==
    LET first == CHOOSE i \in 1..Len(name) :
                    name[i] \in Digits /\ \A j \in 1..(i - 1) : name[j] \notin Digits
        last == CHOOSE k \in first..Len(name) :
                    /\ \A j \in first..k : name[j] \in Digits
                    /\ (k = Len(name) \/ name[k + 1] \notin Digits)
    IN  DecVal(SubSeq(name, first, last))

\* the naming check of lines 186-188 and 202-204: TRUE when the folder is kept
FolderAccepted(name, prefix, max) ==
    ~(~MatchesFolderPattern(name, prefix) \/ FirstNumber(name) > max)

\* files whose content is no DICOM stream (magic names another type)
NonDicomFiles == {<<"n", ".", "a">>}

\* magic.from_file(path) names a DICOM type: decided by the file's content
SniffedDicom(path) == path[Len(path)] \notin NonDicomFiles

\* lines 211-237: the files of one study folder
study_files(t, order, patient_folder, study_folder) ==
    LET dicom_filenames == ListDir(order, <<patient_folder, study_folder>>)
        infos == [i \in 1..Len(dicom_filenames) |->
                    [path |-> <<patient_folder, study_folder, dicom_filenames[i]>>,
                     patient_folder |-> patient_folder,
                     study_folder |-> study_folder,
                     anon_dicom_id |-> i - 1,
                     filename |-> dicom_filenames[i]]]
    IN  SelectSeq(infos, LAMBDA info : SniffedDicom(info.path))

RECURSIVE study_loop(_, _, _, _)
\* lines 196-237: the study folders of one patient folder
study_loop(t, order, patient_folder, study_folders) ==
    IF study_folders = <<>> THEN <<>>
    ELSE LET study_folder == Head(study_folders)
             here == IF ~IsDir(t, <<patient_folder, study_folder>>) THEN <<>>
                     ELSE IF ~FolderAccepted(study_folder, "study_", MAX_STUDY_INDEX)
                          THEN <<>>
                     ELSE study_files(t, order, patient_folder, study_folder)
         IN  here \o study_loop(t, order, patient_folder, Tail(study_folders))

RECURSIVE patient_loop(_, _, _)
\* lines 180-237: the patient folders
patient_loop(t, order, patient_folders) ==
    IF patient_folders = <<>> THEN <<>>
    ELSE LET patient_folder == Head(patient_folders)
             here == IF ~IsDir(t, <<patient_folder>>) THEN <<>>
                     ELSE IF ~FolderAccepted(patient_folder, "patient_", MAX_PATIENT_INDEX)
                          THEN <<>>
                     ELSE study_loop(t, order, patient_folder,
                                     ListDir(order, <<patient_folder>>))
         IN  here \o patient_loop(t, order, Tail(patient_folders))

get_list_of_all_dicom_files(t, order) == patient_loop(t, order, ListDir(order, <<>>))

\* the orders os.listdir may give: the enumerations of the paths
ListingOrders(t) ==
    {o \in [1..Cardinality(t) -> t] : \A i, j \in 1..Cardinality(t) : o[i] = o[j] => i = j}

----------------------------------------------------------------------------
(* deidentify_helper.get_anonymized_identifiers                            *)

\* the digits of a folder name: re.findall(r"\d+", name)[0] as a string
FolderDigits(name) == SelectSeq(name, LAMBDA c : c \in Digits)

\* the identifiers built from the numbers of the folder names alone
get_anonymized_identifiers_from_indices(anon_patient_id, anon_study_id, anon_file_id) ==
    LET p == FolderDigits(anon_patient_id)
        q == FolderDigits(anon_study_id)
    IN  [PatientID |-> p,
         PatientName |-> p,
         StudyInstanceUID |-> p \o <<"-">> \o q,
         StudyID |-> p \o <<"-">> \o q,
         SOPInstanceUID |-> p \o <<"-">> \o q \o <<"-">> \o IntToStr(anon_file_id)]

get_anonymized_identifiers(anon_patient_id, anon_study_id, anon_file_id) ==
    [PatientID |-> anon_patient_id,
     PatientName |-> anon_patient_id,
     StudyInstanceUID |-> anon_patient_id \o <<"-">> \o anon_study_id,
     StudyID |-> anon_patient_id \o <<"-">> \o anon_study_id,
     SOPInstanceUID |-> anon_patient_id \o <<"-">> \o anon_study_id \o <<"-">>
                          \o IntToStr(anon_file_id)]

\* the identifiers generate_anonymized_metadata gives a DicomFileInfo (lines 67-71)
IdentifiersOf(dicom_file) ==
    get_anonymized_identifiers(dicom_file.patient_folder, dicom_file.study_folder,
                               dicom_file.anon_dicom_id)

----------------------------------------------------------------------------
(* The source files: what pydicom.dcmread gives for each path               *)

BoolV(b) == [t |-> "bool", b |-> b]

FILEMETA_KEYWORDS ==
    <<"FileMetaInformationGroupLength", "FileMetaInformationVersion", "TransferSyntaxUID">>

\* dict restricted to the keys outside ks
Without(d, ks) == [k \in (DOMAIN d) \ ks |-> d[k]]

\* the file meta of a well-formed file
FullFileMeta ==
    [k \in {FILEMETA_KEYWORDS[i] : i \in 1..Len(FILEMETA_KEYWORDS)} |->
        CASE k = "FileMetaInformationGroupLength" -> IntV(192)
          [] k = "FileMetaInformationVersion" -> StrV(<<"b'\\x00\\x01'">>)
          [] k = "TransferSyntaxUID" -> StrV(<<"1.2.840.10008.1.2.1">>)]

\* the elements of a well-formed file, apart from its pixel description
BaseElements ==
    [k \in {"PatientID", "PatientName", "StudyInstanceUID", "StudyID", "SOPInstanceUID",
            "Modality", "PatientAge", "StudyDate", "StudyTime"} |->
        CASE k = "PatientID" -> StrV(<<"MRN-0042">>)
          [] k = "PatientName" -> StrV(<<"DOE^JANE">>)
          [] k = "StudyInstanceUID" -> StrV(<<"1.2.840.113619.2.1">>)
          [] k = "StudyID" -> StrV(<<"ACC-7">>)
          [] k = "SOPInstanceUID" -> StrV(<<"1.2.840.113619.2.1.9">>)
          [] k = "Modality" -> StrV(<<"DX">>)
          [] k = "PatientAge" -> StrV(<<"0", "9", "9", "Y">>)
          [] k = "StudyDate" -> StrV(<<"2", "0", "2", "3", "0", "6", "1", "5">>)
          [] k = "StudyTime" -> StrV(<<"0", "9", "3", "0">>)]

PixelElements(ba, bs, pi) ==
    [k \in {"BitsAllocated", "BitsStored", "PhotometricInterpretation"} |->
        CASE k = "BitsAllocated" -> IntV(ba)
          [] k = "BitsStored" -> IntV(bs)
          [] k = "PhotometricInterpretation" -> StrV(pi)]

\* the number in a study folder name: the files of different studies differ
StudyShade(path) == IF Len(path) >= 2 /\ path[2] = <<"study_", "2">> THEN 1 ELSE 0

\* the files of the batch specification, by name
FileA == <<"a", ".dcm">>          \* 12 bits in 16, MONOCHROME2
FileB == <<"b", ".dcm">>          \* 8 bits, MONOCHROME1
FileAB == <<"a", "b">>            \* no extension
FileAC == <<"a", "c">>            \* no extension
FileM == <<"m", ".dcm">>          \* PhotometricInterpretation "monochrome1"
FileX == <<"x", ".dcm">>          \* no BitsStored element
FileH == <<"h", ".dcm">>          \* no TransferSyntaxUID in the file meta
FileE == <<"e", ".dcm">>          \* PhotometricInterpretation is the empty string
FileN == <<"n", ".", "a">>        \* not a DICOM file

\* pydicom.dcmread(path): file_meta, elements, pixel_array, transfer syntax
FileAt(path) ==
    LET name == path[Len(path)]
        k == StudyShade(path)
        good(ba, bs, pi, px) ==
            [file_meta |-> FullFileMeta,
             elements |-> Merge(BaseElements, PixelElements(ba, bs, pi)),
             pixel_array |-> px,
             is_implicit_VR |-> FALSE,
             is_little_endian |-> TRUE]
    IN  CASE name = FileA -> good(16, 12, MONOCHROME2, <<100 + k, 4095>>)
          [] name = FileB -> good(8, 8, MONOCHROME1, <<7 + k, 255>>)
          [] name = FileAB -> good(16, 12, MONOCHROME2, <<200 + k, 0>>)
          [] name = FileAC -> good(16, 16, MONOCHROME2, <<300 + k, 65535>>)
          [] name = FileM -> good(16, 12, Lower(MONOCHROME1), <<50 + k, 1>>)
          [] name = FileE -> good(16, 12, <<>>, <<80 + k, 2>>)
          [] name = FileX ->
                 [good(16, 12, MONOCHROME2, <<60 + k>>) EXCEPT
                     !.elements = Without(@, {"BitsStored"})]
          [] name = FileH ->
                 [good(16, 12, MONOCHROME2, <<70 + k>>) EXCEPT
                     !.file_meta = Without(@, {"TransferSyntaxUID"})]
          [] OTHER -> good(8, 8, MONOCHROME2, <<0>>)

----------------------------------------------------------------------------
(* deidentify_helper.py: metadata extraction                               *)

\* pydicom.datadict: the keywords of the data dictionary that the model uses
DataDictionary ==
    {"PatientID", "PatientName", "StudyInstanceUID", "StudyID", "SOPInstanceUID",
     "BitsAllocated", "BitsStored", "PhotometricInterpretation", "PixelData",
     "Modality", "PatientAge", "PatientBirthDate", "StudyDate", "StudyTime"}

\* validate_keywords: TRUE when the assertion holds
validate_keywords(keywords) ==
    \A i \in 1..Len(keywords) : keywords[i] \in DataDictionary

\* extract_dicom_header_metadata raises KeyError
HeaderRaises(dicom) ==
    \E i \in 1..Len(FILEMETA_KEYWORDS) : FILEMETA_KEYWORDS[i] \notin DOMAIN dicom.file_meta

\* anon_metadata["header"], lines 60-67
extract_header(dicom) ==
    Merge([k \in {FILEMETA_KEYWORDS[i] : i \in 1..Len(FILEMETA_KEYWORDS)} |->
              dicom.file_meta[k]],
          [k \in {"is_implicit_VR", "is_little_endian"} |->
              IF k = "is_implicit_VR" THEN BoolV(dicom.is_implicit_VR)
              ELSE BoolV(dicom.is_little_endian)])

\* extract_metadata_from_dicom after the validation, lines 300-314
extract_metadata_from_dicom(dicom, elements_to_extract) ==
    [k \in {elements_to_extract[i] : i \in 1..Len(elements_to_extract)}
            \cap ((DOMAIN dicom.elements) \ {"PixelData"}) |-> dicom.elements[k]]

\* anonymized_identifiers.__dict__
IdentifierDict(ids) ==
    [k \in {"PatientID", "PatientName", "StudyInstanceUID", "StudyID", "SOPInstanceUID"} |->
        CASE k = "PatientID" -> StrV(ids.PatientID)
          [] k = "PatientName" -> StrV(ids.PatientName)
          [] k = "StudyInstanceUID" -> StrV(ids.StudyInstanceUID)
          [] k = "StudyID" -> StrV(ids.StudyID)
          [] k = "SOPInstanceUID" -> StrV(ids.SOPInstanceUID)]

\* extract_anonymized_metadata raises: a missing file-meta keyword (KeyError),
\* or a keyword list that fails validate_keywords (AssertionError)
ExtractMetadataRaises(dicom, cf) ==
    \/ HeaderRaises(dicom)
    \/ ~validate_keywords(cf.minimal)
    \/ ~validate_keywords(cf.additional)
    \/ ~validate_keywords(cf.transform)

\* extract_anonymized_metadata(...)["all"], lines 88-95
extract_anonymized_metadata_all(dicom, cf, anonymized_identifiers) ==
    LET header == extract_header(dicom)
        minimal == Merge(extract_metadata_from_dicom(dicom, cf.minimal),
                         IdentifierDict(anonymized_identifiers))
        additional == extract_metadata_from_dicom(dicom, cf.additional)
        special == extract_special_metadata(dicom.elements, cf.transform)
    IN  Merge(Merge(Merge(minimal, additional), special), header)

\* get_dicom_pixel raises KeyError: one of the three elements is missing
PixelRaises(dicom) ==
    \E k \in {"BitsStored", "BitsAllocated", "PhotometricInterpretation"} :
        k \notin DOMAIN dicom.elements

\* the three elements get_dicom_pixel reads
PixelMetaOf(elements) ==
    [BitsAllocated |-> elements["BitsAllocated"].n,
     BitsStored |-> elements["BitsStored"].n,
     PhotometricInterpretation |-> elements["PhotometricInterpretation"].s]

----------------------------------------------------------------------------
(* Reconstruction: generate_anonymized_dicom_from_metadata_png              *)

\* pandas: to_csv, read_csv, iloc[i].dropna().to_dict(): a cell that is None
\* or an empty string is written empty, read as NaN and dropped
CsvRow(row) ==
    [k \in {x \in DOMAIN row : row[x] # None /\ row[x] # StrV(<<>>)} |-> row[k]]

IsSuffix(suf, seq) ==
    Len(suf) <= Len(seq) /\ SubSeq(seq, Len(seq) - Len(suf) + 1, Len(seq)) = suf

\* glob.glob(f"{png_dir}/*{file_name}.png")
GlobPng(dir, file_name) ==
    {n \in DOMAIN dir : IsSuffix(file_name \o <<".png">>, n)}

create_basic_filemeta ==
    [k \in {"MediaStorageSOPClassUID", "MediaStorageSOPInstanceUID",
            "ImplementationClassUID"} |->
        IF k = "ImplementationClassUID" THEN StrV(<<"1.2.3.4">>) ELSE StrV(<<"1.2.3">>)]

\* the keys get_anonymized_dicom_from_metadata_png reads with metadata[...]
ReconstructKeys ==
    {"PhotometricInterpretation", "BitsAllocated", "BitsStored", "is_implicit_VR",
     "is_little_endian", "PatientID", "PatientName", "StudyInstanceUID", "StudyID",
     "SOPInstanceUID"} \cup {FILEMETA_KEYWORDS[i] : i \in 1..Len(FILEMETA_KEYWORDS)}

\* get_anonymized_dicom_from_metadata_png raises: a key the row lacks
\* (KeyError), or the minimal list fails validate_keywords
ReconstructRaises(metadata, cf) ==
    \/ ~(ReconstructKeys \subseteq DOMAIN metadata)
    \/ ~validate_keywords(cf.minimal)

\* extract_metadata_from_dict after the validation
extract_metadata_from_dict(meta_data, elements_to_extract) ==
    [k \in {elements_to_extract[i] : i \in 1..Len(elements_to_extract)}
            \cap DOMAIN meta_data |-> meta_data[k]]

\* Dataset.setdefault(keyword, value): sets the element only if it is absent
setdefault(ds, keyword, value) == IF keyword \in DOMAIN ds THEN ds ELSE Put(ds, keyword, value)

\* for keyword, value in file_meta.items(): final_file_meta.setdefault(...)
RECURSIVE setdefault_items(_, _, _)
setdefault_items(final, file_meta, keys) ==
    IF keys = {} THEN final
    ELSE LET keyword == CHOOSE k \in keys : TRUE
         IN  setdefault_items(setdefault(final, keyword, file_meta[keyword]),
                              file_meta, keys \ {keyword})

\* create_new_dicom lines 193-196: file_meta.update(create_basic_filemeta()),
\* then every item is set into the new FileMetaDataset
final_file_meta(file_meta) ==
    LET updated == Merge(file_meta, create_basic_filemeta)
    IN  setdefault_items(EmptyDict, updated, DOMAIN updated)

\* create_new_dicom, lines 189-234
create_new_dicom(pixel_data, dicom_entries, file_meta, is_implicit_VR, is_little_endian) ==
    [t |-> "dcm",
     file_meta |-> final_file_meta(file_meta),
     entries |-> dicom_entries,
     pixel_array |-> pixel_data,
     is_implicit_VR |-> is_implicit_VR,
     is_little_endian |-> is_little_endian]

get_anonymized_dicom_from_metadata_png(metadata, pixel_array, cf) ==
    LET pixel_data == reconstruct_pixels(pixel_array, PixelMetaOf(metadata))
        ids == [k \in {"PatientID", "PatientName", "StudyInstanceUID", "StudyID",
                       "SOPInstanceUID"} |-> metadata[k]]
        minimal_metadata == Merge(extract_metadata_from_dict(metadata, cf.minimal), ids)
        filemeta == [k \in {FILEMETA_KEYWORDS[i] : i \in 1..Len(FILEMETA_KEYWORDS)} |->
                        metadata[k]]
    IN  create_new_dicom(pixel_data, minimal_metadata, filemeta,
                         metadata["is_implicit_VR"], metadata["is_little_endian"])

----------------------------------------------------------------------------
(* Inputs of the PatientAge and special-field specifications               *)

\* longest PatientAge string
MaxAgeLen == 4

AgeAlphabet == {"0", "1", "4", "9", "Y", "a"}
UnitLetters == {"Y", "a"}

AgeStrings == SeqsUpTo(AgeAlphabet, MaxAgeLen)

AgeSamples ==
    {StrV(<<"0", "0", "0", "Y">>), StrV(<<"0", "4", "9", "Y">>),
     StrV(<<"0", "9", "9", "Y">>), StrV(<<"a", "b", "c", "Y">>), StrV(<<>>)}

DateSamples ==
    {StrV(<<"2", "0", "2", "3", "0", "6", "1", "5">>),     \* a Thursday
     StrV(<<"2", "0", "2", "4", "0", "2", "2", "9">>),     \* leap day
     StrV(<<"2", "0", "2", "3", "0", "2", "2", "9">>),     \* no such day
     StrV(<<"2", "0", "2", "3", "1", "3", "0", "1">>),     \* no such month
     StrV(<<"2", "0", "2", "3", "6", "1", "5">>),          \* one-digit month
     StrV(<<"n", "o", "t", "-", "a", "-", "d", "a", "t", "e">>)}

TimeSamples ==
    {StrV(<<"0", "9", "3", "0">>), StrV(<<"2", "3">>), StrV(<<"2", "4">>),
     StrV(<<"9">>), StrV(<<>>), StrV(<<"a", "b", "1", "2">>), OtherV}

\* the Keyword column of tags_to_modify.csv: some of the four, in file order
ModifyKeywords == <<"PatientAge", "PatientBirthDate", "StudyDate", "StudyTime">>

RECURSIVE Pick(_, _)
\* the subsequence of seq of the elements in set
Pick(seq, set) ==
    IF seq = <<>> THEN <<>>
    ELSE (IF Head(seq) \in set THEN <<Head(seq)>> ELSE <<>>) \o Pick(Tail(seq), set)

TagLists == {Pick(ModifyKeywords, ks) : ks \in SUBSET private_keywords_in_dicom}

Absent == [t |-> "absent"]

\* the dataset holding the given elements (Absent: the element is not there)
DicomOf(age, date, time) ==
    LET val(k) == CASE k = "PatientAge" -> age [] k = "StudyDate" -> date
                    [] k = "StudyTime" -> time
    IN  [k \in {x \in {"PatientAge", "StudyDate", "StudyTime"} : val(x) # Absent}
            |-> val(k)]

SpecialDicoms ==
    {DicomOf(a, d, t) : a \in AgeSamples \cup {Absent},
                        d \in DateSamples \cup {Absent},
                        t \in TimeSamples \cup {Absent}}

\* longest file name, in elements
MaxNameLen == 3

FileChars == {"a", "b", ".", ".dcm"}
\* os.listdir never returns "", "." or ".."
FileNames == SeqsUpTo(FileChars, MaxNameLen) \ {<<>>, <<".">>, <<".", ".">>}

Folder(prefix, digits) == <<prefix>> \o digits

NamingInfos ==
    [patient_folder : {Folder("patient_", <<"1">>), Folder("patient_", <<"5", "0", "0">>)},
     study_folder : {Folder("study_", <<"1">>), Folder("study_", <<"2">>)},
     filename : FileNames]

\* most files in the input directory
MaxFiles == 2

PatientNames ==
    {Folder("patient_", <<"1">>), Folder("patient_", <<"5", "0", "0">>),
     Folder("patient_", <<"5", "0", "1">>), Folder("patient_", <<"0">>),
     Folder("patient_", <<"0", "1">>), Folder("patient", <<"X">>),
     Folder("patient_", <<"1", "\n">>)}

StudyNames ==
    {Folder("study_", <<"1">>), Folder("study_", <<"2">>), Folder("study_", <<"3">>),
     Folder("study", <<"X">>)}

DiscoveryFiles == {<<"a", ".dcm">>, <<"b", ".dcm">>} \cup NonDicomFiles

\* plain files named like folders, beside the folders
PlainPaths == {<<Folder("patient_", <<"1">>)>>,
               <<Folder("patient_", <<"1">>), Folder("study_", <<"1">>)>>}

DiscoveryPaths ==
    {<<p, s, f>> : p \in PatientNames, s \in StudyNames, f \in DiscoveryFiles}
        \cup PlainPaths

RECURSIVE SubsetsUpTo(_, _)
\* the subsets of S of at most n elements
SubsetsUpTo(S, n) ==
    IF n = 0 THEN {{}}
    ELSE LET smaller == SubsetsUpTo(S, n - 1)
         IN  smaller \cup {T \cup {x} : T \in smaller, x \in S}

\* a name is a file or a folder, not both
IsTree(t) == \A a, b \in t : IsPrefix(a, b) => a = b

DiscoveryTrees == {t \in SubsetsUpTo(DiscoveryPaths, MaxFiles) : IsTree(t)}

\* the keyword lists of the repository's three tag files, as far as the model
\* follows them, and the same with a keyword the data dictionary does not know
MinimalTags ==
    <<"PatientID", "PatientName", "StudyInstanceUID", "StudyID", "SOPInstanceUID",
      "BitsAllocated", "BitsStored", "PhotometricInterpretation", "PixelData">>
AdditionalTags == <<"Modality">>
TransformTags == <<"PatientAge", "StudyDate", "StudyTime">>

GoodConf == [minimal |-> MinimalTags, additional |-> AdditionalTags,
             transform |-> TransformTags]

Confs ==
    {GoodConf,
     [GoodConf EXCEPT !.minimal = Append(@, "NotAKeyword")],
     [GoodConf EXCEPT !.additional = Append(@, "NotAKeyword")],
     [GoodConf EXCEPT !.transform = Append(@, "NotAKeyword")],
     [GoodConf EXCEPT !.additional = Append(@, "PatientName")]}

\* the file_meta arguments of create_new_dicom
FileMetaKeys ==
    {"MediaStorageSOPClassUID", "MediaStorageSOPInstanceUID", "ImplementationClassUID",
     "TransferSyntaxUID"}

FileMetaValues ==
    {StrV(<<"1.2.3">>), StrV(<<"1.2.840.10008.1.2.1">>),
     StrV(<<"1.2.840.10008.5.1.4.1.1.1.1">>)}

FileMetas == UNION {[ks -> FileMetaValues] : ks \in SUBSET FileMetaKeys}

BatchFolders ==
    {<<Folder("patient_", <<"1">>), Folder("study_", <<"1">>)>>,
     <<Folder("patient_", <<"1">>), Folder("study_", <<"2">>)>>,
     <<Folder("patient_", <<"2">>), Folder("study_", <<"1">>)>>}

BatchFiles == {FileA, FileB, FileAB, FileAC, FileM, FileE, FileX, FileH, FileN}

BatchPaths == {Append(d, f) : d \in BatchFolders, f \in BatchFiles}

BatchTrees == SubsetsUpTo(BatchPaths, MaxFiles)

MaxInterrupts == 1

----------------------------------------------------------------------------
(* Specifications                                                          *)

PixelIdle ==
    /\ pxMeta = <<>> /\ pxNative = <<>> /\ pxPng = <<>> /\ pxRecon = <<>>
    /\ pxPc = "idle"

AgeIdle == ageIn = <<>> /\ ageOut = None /\ agePc = "idle"

SpecialIdle ==
    spDicom = EmptyDict /\ spTags = <<>> /\ spSpecial = EmptyDict /\ spPc = "idle"

DiscoveryIdle == tree = {} /\ dsList = <<>> /\ dsPc = "idle"

BatchIdle ==
    /\ conf = <<>> /\ pc = "idle" /\ outDir = FALSE /\ dicom_files = <<>> /\ idx = 0
    /\ anon_metadata_all = <<>> /\ rowSource = <<>> /\ csv = None
    /\ images = EmptyDict /\ dcmReads = <<>> /\ interrupts = 0

FileMetaIdle == fmIn = EmptyDict /\ fmOut = EmptyDict /\ fmPc = "idle"

NameIdle ==
    /\ nmFile = <<>> /\ nmPng = <<>> /\ nmDcm = <<>> /\ nmDcmOfPng = <<>>
    /\ nmPc = "idle"

\* ---- the pixel codec on one file

InitPixel ==
    /\ pxMeta \in PixelMetas
    /\ \E n \in 1..MaxPixels : pxNative \in [1..n -> SampleValues(pxMeta.BitsStored)]
    /\ pxPng = <<>>
    /\ pxRecon = <<>>
    /\ pxPc = "read"
    /\ AgeIdle /\ SpecialIdle /\ NameIdle /\ DiscoveryIdle /\ BatchIdle /\ FileMetaIdle

\* generate_png's body for one file: get_dicom_pixel, saved losslessly
ExtractPixels ==
    /\ pxPc = "read"
    /\ pxPng' = get_dicom_pixel(pxNative, pxMeta)
    /\ pxPc' = "extracted"
    /\ UNCHANGED <<pxMeta, pxNative, pxRecon, ageVars, specialVars, nameVars, discoveryVars, batchVars, fileMetaVars>>

\* get_anonymized_dicom_from_metadata_png on the row and the PNG of that file
ReconstructPixels ==
    /\ pxPc = "extracted"
    /\ pxRecon' = reconstruct_pixels(pxPng, pxMeta)
    /\ pxPc' = "reconstructed"
    /\ UNCHANGED <<pxMeta, pxNative, pxPng, ageVars, specialVars, nameVars, discoveryVars, batchVars, fileMetaVars>>

NextPixel == ExtractPixels \/ ReconstructPixels

SpecPixel == InitPixel /\ [][NextPixel]_vars

\* ---- extract_modified_age on one PatientAge string

InitAge ==
    /\ ageIn \in AgeStrings
    /\ ageOut = None
    /\ agePc = "call"
    /\ PixelIdle /\ SpecialIdle /\ NameIdle /\ DiscoveryIdle /\ BatchIdle /\ FileMetaIdle

CallExtractModifiedAge ==
    /\ agePc = "call"
    /\ ageOut' = extract_modified_age(ageIn)
    /\ agePc' = "returned"
    /\ UNCHANGED <<ageIn, pixelVars, specialVars, nameVars, discoveryVars, batchVars, fileMetaVars>>

NextAge == CallExtractModifiedAge

SpecAge == InitAge /\ [][NextAge]_vars

\* ---- extract_special_metadata on one dataset

InitSpecial ==
    /\ spDicom \in SpecialDicoms
    /\ spTags \in TagLists
    /\ spSpecial = EmptyDict
    /\ spPc = "call"
    /\ PixelIdle /\ AgeIdle /\ NameIdle /\ DiscoveryIdle /\ BatchIdle /\ FileMetaIdle

CallExtractSpecialMetadata ==
    /\ spPc = "call"
    /\ spSpecial' = extract_special_metadata(spDicom, spTags)
    /\ spPc' = "returned"
    /\ UNCHANGED <<spDicom, spTags, pixelVars, ageVars, nameVars, discoveryVars, batchVars, fileMetaVars>>

NextSpecial == CallExtractSpecialMetadata

SpecSpecial == InitSpecial /\ [][NextSpecial]_vars

\* ---- the output names of one DicomFileInfo

InitNaming ==
    /\ nmFile \in NamingInfos
    /\ nmPng = <<>> /\ nmDcm = <<>> /\ nmDcmOfPng = <<>>
    /\ nmPc = "call"
    /\ PixelIdle /\ AgeIdle /\ SpecialIdle /\ DiscoveryIdle /\ BatchIdle /\ FileMetaIdle

\* generate_png names the raster; generate_anonymized_dicom_from_dicom and
\* generate_anonymized_dicom_from_metadata_png name the dataset
ComputeNames ==
    /\ nmPc = "call"
    /\ nmPng' = get_png_path(nmFile)
    /\ nmDcm' = get_dicom_path(nmFile)
    /\ nmDcmOfPng' = get_dicom_path_from_png(get_png_path(nmFile))
    /\ nmPc' = "returned"
    /\ UNCHANGED <<nmFile, pixelVars, ageVars, specialVars, discoveryVars, batchVars, fileMetaVars>>

NextNaming == ComputeNames

SpecNaming == InitNaming /\ [][NextNaming]_vars

\* ---- get_list_of_all_dicom_files on one input directory

InitDiscovery ==
    /\ tree \in DiscoveryTrees
    /\ dsList = <<>>
    /\ dsPc = "call"
    /\ PixelIdle /\ AgeIdle /\ SpecialIdle /\ NameIdle /\ BatchIdle /\ FileMetaIdle

CallGetList ==
    /\ dsPc = "call"
    /\ \E order \in ListingOrders(tree) :
          dsList' = get_list_of_all_dicom_files(tree, order)
    /\ dsPc' = "returned"
    /\ UNCHANGED <<tree, pixelVars, ageVars, specialVars, nameVars, batchVars, fileMetaVars>>

\* another call, or another run, over the unchanged input directory: os.listdir
\* gives the entries in the order of the platform's file system
CallGetListAgain ==
    /\ dsPc = "returned"
    /\ \E order \in ListingOrders(tree) :
          dsList' = get_list_of_all_dicom_files(tree, order)
    /\ dsPc' = "returned"
    /\ UNCHANGED <<tree, pixelVars, ageVars, specialVars, nameVars, batchVars, fileMetaVars>>

NextDiscovery == CallGetList \/ CallGetListAgain

SpecDiscovery == InitDiscovery /\ [][NextDiscovery]_vars

\* ---- create_new_dicom on one file_meta argument

InitFileMeta ==
    /\ fmIn \in FileMetas
    /\ fmOut = EmptyDict
    /\ fmPc = "call"
    /\ PixelIdle /\ AgeIdle /\ SpecialIdle /\ NameIdle /\ DiscoveryIdle /\ BatchIdle

CallCreateNewDicom ==
    /\ fmPc = "call"
    /\ fmOut' = create_new_dicom(<<0>>, Put(EmptyDict, "StudyID", StrV(<<"patient_", "1">>)),
                                 fmIn, FALSE, TRUE).file_meta
    /\ fmPc' = "returned"
    /\ UNCHANGED <<fmIn, pixelVars, ageVars, specialVars, nameVars, discoveryVars, batchVars>>

NextFileMeta == CallCreateNewDicom

SpecFileMeta == InitFileMeta /\ [][NextFileMeta]_vars

\* ---- deidentify_dicoms, then generate_anonymized_dicom_from_metadata_png

InitBatch ==
    /\ tree \in BatchTrees
    /\ conf \in Confs
    /\ pc = "start"
    /\ outDir \in BOOLEAN
    /\ dicom_files = <<>> /\ idx = 0
    /\ anon_metadata_all = <<>> /\ rowSource = <<>>
    /\ csv = None
    /\ images = EmptyDict
    /\ dcmReads = <<>>
    /\ interrupts = 0
    /\ dsList = <<>> /\ dsPc = "idle"
    /\ PixelIdle /\ AgeIdle /\ SpecialIdle /\ NameIdle /\ FileMetaIdle

otherVars == <<pixelVars, ageVars, specialVars, nameVars, dsList, dsPc, fileMetaVars>>

\* deidentify_dicoms lines 29-36 and generate_anonymized_metadata line 60:
\* the image folder is made, the files are listed
StartMetadata ==
    /\ pc = "start"
    /\ outDir' = TRUE
    /\ \E order \in ListingOrders(tree) :
          dicom_files' = get_list_of_all_dicom_files(tree, order)
    /\ idx' = 1
    /\ pc' = "metadata"
    /\ UNCHANGED <<tree, conf, anon_metadata_all, rowSource, csv, images, dcmReads, interrupts, otherVars>>

\* generate_anonymized_metadata lines 66-77 for one file; an exception ends the run
MetadataStep ==
    /\ pc = "metadata"
    /\ idx <= Len(dicom_files)
    /\ LET dicom_file == dicom_files[idx]
           dicom == FileAt(dicom_file.path)
           row == Put(extract_anonymized_metadata_all(dicom, conf, IdentifiersOf(dicom_file)),
                      "filename", StrV(get_dicom_filename(dicom_file.filename)))
       IN  /\ dcmReads' = Append(dcmReads, dicom_file.path)
           /\ IF ExtractMetadataRaises(dicom, conf)
              THEN /\ pc' = "aborted"
                   /\ UNCHANGED <<idx, anon_metadata_all, rowSource>>
              ELSE /\ anon_metadata_all' = Append(anon_metadata_all, row)
                   /\ rowSource' = Append(rowSource, dicom_file.path)
                   /\ idx' = idx + 1
                   /\ pc' = pc
    /\ UNCHANGED <<tree, conf, outDir, dicom_files, csv, images, interrupts, otherVars>>

\* generate_anonymized_metadata lines 79-80 and generate_png line 91: the CSV
\* is written; the files are listed again, and the listing of the unchanged
\* input directory is the same
WriteCsv ==
    /\ pc = "metadata"
    /\ idx > Len(dicom_files)
    /\ csv' = anon_metadata_all
    /\ idx' = 1
    /\ pc' = "png"
    /\ UNCHANGED <<tree, conf, outDir, dicom_files, anon_metadata_all, rowSource, images, dcmReads, interrupts, otherVars>>

\* generate_png lines 95-98 for one file; an exception ends the run
PngStep ==
    /\ pc = "png"
    /\ idx <= Len(dicom_files)
    /\ LET dicom_file == dicom_files[idx]
           dicom == FileAt(dicom_file.path)
       IN  /\ dcmReads' = Append(dcmReads, dicom_file.path)
           /\ IF PixelRaises(dicom)
              THEN /\ pc' = "aborted"
                   /\ UNCHANGED <<idx, images>>
              ELSE /\ images' = Put(images, get_png_path(dicom_file),
                                    [t |-> "png",
                                     pixel_array |->
                                        get_dicom_pixel(dicom.pixel_array,
                                                        PixelMetaOf(dicom.elements))])
                   /\ idx' = idx + 1
                   /\ pc' = pc
    /\ UNCHANGED <<tree, conf, outDir, dicom_files, anon_metadata_all, rowSource, csv, interrupts, otherVars>>

\* deidentify_dicoms lines 41-49: the run ends
Finish ==
    /\ pc = "png"
    /\ idx > Len(dicom_files)
    /\ pc' = "done"
    /\ UNCHANGED <<tree, conf, outDir, dicom_files, idx, anon_metadata_all, rowSource, csv,
                   images, dcmReads, interrupts, otherVars>>

\* generate_anonymized_dicom_from_metadata_png line 139, on the outputs of a
\* finished run
StartReconstruction ==
    /\ pc = "done"
    /\ idx' = 1
    /\ pc' = "recon"
    /\ UNCHANGED <<tree, conf, outDir, dicom_files, anon_metadata_all, rowSource, csv,
                   images, dcmReads, interrupts, otherVars>>

\* lines 143-163 for one row: no raster or several: the row is skipped; an
\* exception ends the batch
ReconstructionStep ==
    /\ pc = "recon"
    /\ idx <= Len(csv)
    /\ LET meta_data == CsvRow(csv[idx])
           file_name == meta_data["filename"].s
           generated_png_path == GlobPng(images, file_name)
       IN  IF Cardinality(generated_png_path) # 1
           THEN /\ idx' = idx + 1
                /\ UNCHANGED <<pc, images>>
           ELSE LET png_path == CHOOSE n \in generated_png_path : TRUE
                IN  IF ReconstructRaises(meta_data, conf)
                    THEN /\ pc' = "recon_aborted"
                         /\ UNCHANGED <<idx, images>>
                    ELSE /\ images' =
                              Put(images, get_dicom_path_from_png(png_path),
                                  get_anonymized_dicom_from_metadata_png(
                                      meta_data, images[png_path].pixel_array, conf))
                         /\ idx' = idx + 1
                         /\ pc' = pc
    /\ UNCHANGED <<tree, conf, outDir, dicom_files, anon_metadata_all, rowSource, csv,
                   dcmReads, interrupts, otherVars>>

FinishReconstruction ==
    /\ pc = "recon"
    /\ idx > Len(csv)
    /\ pc' = "recon_done"
    /\ UNCHANGED <<tree, conf, outDir, dicom_files, idx, anon_metadata_all, rowSource, csv,
                   images, dcmReads, interrupts, otherVars>>

\* deidentify_dicoms is interrupted before it ends, and run again on the
\* unchanged input: what the run held in memory is gone, the CSV and the image
\* directory are as the interrupted run left them
InterruptAndRunAgain ==
    /\ pc \in {"metadata", "png"}
    /\ interrupts < MaxInterrupts
    /\ interrupts' = interrupts + 1
    /\ pc' = "start"
    /\ idx' = 0
    /\ dicom_files' = <<>>
    /\ anon_metadata_all' = <<>>
    /\ rowSource' = <<>>
    /\ dcmReads' = <<>>
    /\ UNCHANGED <<tree, conf, outDir, csv, images, otherVars>>

NextBatch ==
    \/ StartMetadata \/ MetadataStep \/ WriteCsv \/ PngStep \/ Finish
    \/ InterruptAndRunAgain
    \/ StartReconstruction \/ ReconstructionStep \/ FinishReconstruction

SpecBatch == InitBatch /\ [][NextBatch]_vars

----------------------------------------------------------------------------
(* Claims                                                                  *)

\* C1: the reconstruction steps applied to the extraction's output return the
\* source array, for every BitsStored <= BitsAllocated and every
\* PhotometricInterpretation value given to both directions.
C1_PixelRoundTrip == pxPc = "reconstructed" => pxRecon = pxNative

\* a PatientAge of one or more decimal digits followed by one unit letter
IsAgeShape(s) ==
    /\ Len(s) >= 2
    /\ IsDigits(SubSeq(s, 1, Len(s) - 1))
    /\ s[Len(s)] \in UnitLetters

\* C8: for a PatientAge made of one or more decimal digits and one unit letter,
\* extract_modified_age returns min(magnitude, 90) written in decimal without
\* leading zeros, followed by the unit letter; the magnitude never exceeds 90.
C8_AgeClamped ==
    (agePc = "returned" /\ IsAgeShape(ageIn)) =>
        LET digits == SubSeq(ageIn, 1, Len(ageIn) - 1)
            unit == ageIn[Len(ageIn)]
            magnitude == DecVal(digits)
        IN  /\ ageOut.t = "str"
            /\ ageOut.s = IntToStr(IF magnitude > 90 THEN 90 ELSE magnitude) \o <<unit>>
            /\ LET out == SubSeq(ageOut.s, 1, Len(ageOut.s) - 1)
               IN  /\ IsDigits(out) /\ out # <<>>
                   /\ DecVal(out) <= 90
                   /\ (Len(out) > 1 => out[1] # "0")

C8_Witness ==
    /\ agePc = "returned"
    /\ ageIn = <<"0", "9", "9", "Y">>
    /\ ageOut = StrV(<<"9", "0", "Y">>)

\* the transform of keyword k is applied: k is listed and the dataset holds it
Applied(k) == InSeq(k, spTags) /\ k \in DOMAIN spDicom

\* PatientAge whose magnitude (all but the last character) is not a number
AgeNonNumeric(s) == Len(s) < 2 \/ ~IsDigits(SubSeq(s, 1, Len(s) - 1))

\* eight digits YYYYMMDD that name a calendar date
IsCalendarDate(s) ==
    /\ Len(s) = 8 /\ IsDigits(s)
    /\ LET y == DecVal(SubSeq(s, 1, 4))
           m == DecVal(SubSeq(s, 5, 6))
           d == DecVal(SubSeq(s, 7, 8))
       IN  y >= 1 /\ m \in 1..12 /\ d >= 1 /\ d <= DaysInMonth(y, m)

\* a StudyDate strptime rejects: a character that is no digit, or eight digits
\* that name no calendar date
DateRejected(s) == ~IsDigits(s) \/ (Len(s) = 8 /\ ~IsCalendarDate(s))

\* StudyTime shorter than 2 characters, non-numeric, or hour outside 00-23
TimeBad(v) ==
    \/ v.t # "str"
    \/ Len(v.s) < 2
    \/ ~IsDigits(SubSeq(v.s, 1, 2))
    \/ DecVal(SubSeq(v.s, 1, 2)) > 23

SpecialKeys == {"age", "day_of_week", "year", "hour_of_the_day"}

\* the fields whose transform succeeds are emitted whatever became of the others
C9_OthersUnaffected ==
    /\ DOMAIN spSpecial \subseteq SpecialKeys
    /\ (Applied("PatientAge") /\ ~AgeNonNumeric(spDicom["PatientAge"].s)) =>
          ("age" \in DOMAIN spSpecial /\ spSpecial["age"].t = "str")
    /\ (Applied("StudyDate") /\ IsCalendarDate(spDicom["StudyDate"].s)) =>
          /\ "year" \in DOMAIN spSpecial
          /\ spSpecial["year"] = IntV(DecVal(SubSeq(spDicom["StudyDate"].s, 1, 4)))
          /\ "day_of_week" \in DOMAIN spSpecial
          /\ spSpecial["day_of_week"].t = "int"
          /\ spSpecial["day_of_week"].n \in 0..6
    /\ (Applied("StudyTime") /\ ~TimeBad(spDicom["StudyTime"])) =>
          /\ "hour_of_the_day" \in DOMAIN spSpecial
          /\ spSpecial["hour_of_the_day"] = IntV(DecVal(SubSeq(spDicom["StudyTime"].s, 1, 2)))

WithoutDicomExtension(filename) ==
    IF Len(filename) > 0 /\ filename[Len(filename)] = ".dcm"
    THEN SubSeq(filename, 1, Len(filename) - 1)
    ELSE filename

\* C10: the raster of a file is named
\* {patientFolder}-{studyFolder}-generated_id_{h}.png, h the hash of the file
\* name with only its DICOM extension removed (hashed whole when it has none),
\* and the reconstructed dataset has the same stem and -generated_dicom.dcm.
C10_RasterName ==
    nmPc = "returned" =>
        LET stem == nmFile.patient_folder \o <<"-">> \o nmFile.study_folder \o <<"-">>
                      \o <<"generated_id_">>
                      \o Sha256Hex8(WithoutDicomExtension(nmFile.filename))
        IN  /\ nmPng = stem \o <<".png">>
            /\ nmDcm = stem \o <<"-generated_dicom", ".dcm">>
            /\ nmDcmOfPng = nmDcm

\* the records of the returned list
Records == {dsList[i] : i \in 1..Len(dsList)}

\* the index the folder check computes from a folder name (lines 188, 204)
patientIndex(r) == FirstNumber(r.patient_folder)
studyIndex(r) == FirstNumber(r.study_folder)

\* C3: two emitted records have equal StudyInstanceUID (and StudyID) iff they
\* have the same (patientIndex, studyIndex), equal PatientID (and PatientName)
\* iff they have the same patientIndex, and two distinct records never share a
\* SOPInstanceUID.
C3_IdentifierHierarchy ==
    dsPc = "returned" =>
        \A i, j \in 1..Len(dsList) :
            LET a == dsList[i]
                b == dsList[j]
                ia == IdentifiersOf(a)
                ib == IdentifiersOf(b)
                sameStudy == patientIndex(a) = patientIndex(b) /\ studyIndex(a) = studyIndex(b)
                samePatient == patientIndex(a) = patientIndex(b)
            IN  /\ (ia.StudyInstanceUID = ib.StudyInstanceUID) <=> sameStudy
                /\ (ia.StudyID = ib.StudyID) <=> sameStudy
                /\ (ia.PatientID = ib.PatientID) <=> samePatient
                /\ (ia.PatientName = ib.PatientName) <=> samePatient
                /\ (i # j => ia.SOPInstanceUID # ib.SOPInstanceUID)

\* a folder named <prefix><N>, N a positive integer without leading zero, N <= max
IsIndexedFolder(name, prefix, max) ==
    /\ Len(name) >= 2
    /\ name[1] = prefix
    /\ IsDigits(SubSeq(name, 2, Len(name)))
    /\ name[2] # "0"
    /\ DecVal(SubSeq(name, 2, Len(name))) <= max

\* C6: a record is emitted only for a file under a patient folder patient_<N>
\* (N positive, no leading zero, N <= 500) and a study folder study_<M>
\* (M positive, no leading zero, M <= 2); any other folder contributes no
\* record, and the DICOM files of the valid folders beside it are all emitted.
C6_FolderValidation ==
    dsPc = "returned" =>
        /\ \A r \in Records :
              /\ IsIndexedFolder(r.patient_folder, "patient_", 500)
              /\ IsIndexedFolder(r.study_folder, "study_", 2)
        /\ \A path \in tree :
              (/\ Len(path) = 3
               /\ IsIndexedFolder(path[1], "patient_", 500)
               /\ IsIndexedFolder(path[2], "study_", 2)
               /\ SniffedDicom(path)) =>
                  \E r \in Records : r.path = path

\* ---- the batch

HasUnknownKeyword(cf) ==
    ~(validate_keywords(cf.minimal) /\ validate_keywords(cf.additional)
        /\ validate_keywords(cf.transform))

\* deidentify_dicoms returned normally
RunCompleted == pc \in {"done", "recon", "recon_aborted", "recon_done"}

Rasters == {n \in DOMAIN images : images[n].t = "png"}

\* C4: with a keyword list that holds a keyword the data dictionary does not
\* know, a run of deidentify_dicoms reads no source file and does not complete,
\* whatever the input tree, the tree without accepted files included.
C4_FailFastConfiguration ==
    HasUnknownKeyword(conf) => dcmReads = <<>> /\ ~RunCompleted

\* C5: with keyword lists the data dictionary knows, no file and no row ends
\* the extraction batch or the reconstruction batch: the batch goes on to the
\* remaining files and rows.
C5_OnlyConfigurationHalts ==
    ~HasUnknownKeyword(conf) => pc \notin {"aborted", "recon_aborted"}

\* C7: after a run of deidentify_dicoms that completed, the CSV has one row
\* per accepted source file, the image directory one raster per accepted
\* source file, and the filename of each row is the name derived from its
\* source file.
C7_OutputCardinality ==
    pc = "done" =>
        /\ Len(csv) = Len(dicom_files)
        /\ Cardinality(Rasters) = Len(dicom_files)
        /\ \A i \in 1..Len(csv) :
              /\ rowSource[i] = dicom_files[i].path
              /\ csv[i]["filename"] = StrV(get_dicom_filename(dicom_files[i].filename))

\* a valid input tree: every file in it is a well-formed file with the
\* extension .dcm (or is not a DICOM file at all)
ValidTree(t) == \A path \in t : path[Len(path)] \in {FileA, FileB, FileN}

\* C2: after deidentify_dicoms over a valid input tree and the reconstruction
\* on its CSV and image directory, every accepted source file has a
\* reconstructed dataset whose pixel array is the pixel array of the source
\* file, files of the same name in different study folders included.
C2_PipelineRoundTrip ==
    (pc = "recon_done" /\ ValidTree(tree) /\ ~HasUnknownKeyword(conf)) =>
        \A i \in 1..Len(dicom_files) :
            LET out == get_dicom_path(dicom_files[i])
            IN  /\ out \in DOMAIN images
                /\ images[out].t = "dcm"
                /\ images[out].pixel_array = FileAt(dicom_files[i].path).pixel_array

\* ---- identifier values

\* the entries os.listdir gives for the study folder of a record
StudyEntries(r) == {path \in tree : Len(path) >= 3 /\ path[1] = r.path[1] /\ path[2] = r.path[2]}

\* C11 as stated: the identifiers of a record with indices (p, s, i) are
\* PatientID = PatientName = str(p), StudyInstanceUID = StudyID = "p-s" and
\* SOPInstanceUID = "p-s-i", built from the numeric indices only.
C11_IdentifiersFromIndices ==
    dsPc = "returned" =>
        \A k \in 1..Len(dsList) :
            LET r == dsList[k]
                ids == IdentifiersOf(r)
                p == IntToStr(patientIndex(r))
                q == IntToStr(studyIndex(r))
            IN  /\ ids.PatientID = p
                /\ ids.PatientName = p
                /\ ids.StudyInstanceUID = p \o <<"-">> \o q
                /\ ids.StudyID = p \o <<"-">> \o q
                /\ ids.SOPInstanceUID = p \o <<"-">> \o q \o <<"-">> \o IntToStr(r.anon_dicom_id)

\* C11, amended: the identifiers of a record are built from the names of its
\* patient folder P and study folder S and its position i in the listing of
\* the study folder: PatientID = PatientName = P, StudyInstanceUID = StudyID =
\* "P-S" and SOPInstanceUID = "P-S-i", with 0 <= i < the number of entries.
C11_IdentifiersFromFolderNames ==
    dsPc = "returned" =>
        \A k \in 1..Len(dsList) :
            LET r == dsList[k]
                ids == IdentifiersOf(r)
                P == r.path[1]
                S == r.path[2]
            IN  /\ r.path \in tree
                /\ ids.PatientID = P
                /\ ids.PatientName = P
                /\ ids.StudyInstanceUID = P \o <<"-">> \o S
                /\ ids.StudyID = P \o <<"-">> \o S
                /\ r.anon_dicom_id \in 0..(Cardinality(StudyEntries(r)) - 1)
                /\ ids.SOPInstanceUID = P \o <<"-">> \o S \o <<"-">> \o IntToStr(r.anon_dicom_id)

\* a listing came back with two records of one study folder, the second at
\* position 1, in patient folder patient_500
C11_Witness ==
    /\ dsPc = "returned"
    /\ Len(dsList) = 2
    /\ dsList[1].path[1] = <<"patient_", "5", "0", "0">>
    /\ dsList[2].path[1] = dsList[1].path[1]
    /\ dsList[2].path[2] = dsList[1].path[2]
    /\ IdentifiersOf(dsList[2]).SOPInstanceUID =
          <<"patient_", "5", "0", "0", "-">> \o dsList[2].path[2] \o <<"-", "1">>

\* ---- the exported row

IdentityKeywords ==
    {"PatientID", "PatientName", "StudyInstanceUID", "StudyID", "SOPInstanceUID"}

\* C12: whatever the three keyword lists hold, the values of the five identity
\* keywords in the row extract_anonymized_metadata returns for a file are the
\* synthetic identifiers of the file and never the values stored in the file.
C12_NoIdentityLeak ==
    \A i \in 1..Len(anon_metadata_all) :
        LET row == anon_metadata_all[i]
            ids == IdentifierDict(IdentifiersOf(dicom_files[i]))
            original == FileAt(rowSource[i]).elements
        IN  \A k \in IdentityKeywords :
                /\ k \in DOMAIN row
                /\ row[k] = ids[k]
                /\ row[k] # original[k]

\* ---- polarity

\* C13: for the PhotometricInterpretation string of a file, in any letter
\* case, get_dicom_pixel inverts the samples iff
\* get_anonymized_dicom_from_metadata_png inverts them when it is given the
\* same string from the metadata row.
C13_PolarityDecisionsAgree ==
    pxPc = "reconstructed" =>
        (ExtractInverts(pxMeta.PhotometricInterpretation)
            <=> ReconstructInverts(pxMeta.PhotometricInterpretation))

\* ---- instance index

\* C14: over an unchanged input tree, two calls of get_list_of_all_dicom_files
\* give every file the same instance index (and so the same SOPInstanceUID),
\* whatever the order in which the directory listing returns the entries.
C14_DeterministicInstanceIndex ==
    [][(dsPc = "returned" /\ dsPc' = "returned") =>
          \A i \in 1..Len(dsList) : \A j \in 1..Len(dsList') :
              dsList[i].path = dsList'[j].path =>
                  /\ dsList[i].anon_dicom_id = dsList'[j].anon_dicom_id
                  /\ IdentifiersOf(dsList[i]).SOPInstanceUID
                        = IdentifiersOf(dsList'[j]).SOPInstanceUID]_vars

\* ---- file meta

\* C15: in the file meta of the dataset create_new_dicom returns, a key of the
\* file_meta argument has the value the argument gave it, and the placeholders
\* fill only the keys the argument does not contain.
C15_FileMetaPrecedence ==
    fmPc = "returned" =>
        /\ DOMAIN fmOut = (DOMAIN fmIn) \cup DOMAIN create_basic_filemeta
        /\ \A k \in DOMAIN fmIn : fmOut[k] = fmIn[k]
        /\ \A k \in (DOMAIN create_basic_filemeta) \ DOMAIN fmIn :
              fmOut[k] = create_basic_filemeta[k]

\* ---- re-run

\* the row generate_anonymized_metadata collects for a file
RowOf(dicom_file) ==
    Put(extract_anonymized_metadata_all(FileAt(dicom_file.path), conf,
                                        IdentifiersOf(dicom_file)),
        "filename", StrV(get_dicom_filename(dicom_file.filename)))

\* the CSV of one uninterrupted run over a listing
UninterruptedCsv(files) == [i \in 1..Len(files) |-> RowOf(files[i])]

\* the image directory of one uninterrupted run over a listing, from empty
RECURSIVE UninterruptedImages(_)
UninterruptedImages(files) ==
    IF files = <<>> THEN EmptyDict
    ELSE LET last == files[Len(files)]
             dicom == FileAt(last.path)
         IN  Put(UninterruptedImages(SubSeq(files, 1, Len(files) - 1)),
                 get_png_path(last),
                 [t |-> "png",
                  pixel_array |-> get_dicom_pixel(dicom.pixel_array,
                                                  PixelMetaOf(dicom.elements))])

\* C16: when deidentify_dicoms ends, interrupted and run again or not, the
\* CSV and the raster files are those of one uninterrupted run over the
\* input; the output directory exists, whether it existed before or not.
C16_RerunSafe ==
    pc = "done" =>
        /\ outDir = TRUE
        /\ csv = UninterruptedCsv(dicom_files)
        /\ images = UninterruptedImages(dicom_files)

\* a run that was interrupted and run again has ended, with two accepted
\* files and their two rasters
C16_Witness ==
    /\ pc = "done"
    /\ interrupts >= 1
    /\ Len(dicom_files) = 2
    /\ Cardinality(Rasters) = 2

====
